---------------------------- MODULE Spec2Model ----------------------------
(***************************************************************************)
(* Model of the haystac/rip command-line front end                         *)
(* (src/haystack/haystack.py) and of the bounded-retry Entrez fetch        *)
(* helper (src/scripts/entrez_utils.py).                                   *)
(*                                                                         *)
(* SpecEntrez / FairSpecEntrez : guts_of_entrez driving entrez_efetch      *)
(* SpecConfig                  : rip config acting on the user config      *)
(* SpecCli                     : rip database and rip sample on an         *)
(*                               installation as rip config leaves it      *)
(* SpecDirs                    : rip config and rip database naming        *)
(*                               directories of the file system            *)
(* SpecRun                     : rip database, rip sample and rip analyse  *)
(*                               on one database, sample and results       *)
(*                               directory                                 *)
(***************************************************************************)
EXTENDS Integers, Sequences, FiniteSets, TLC

(***************************************************************************)
(* Bounds of the model                                                     *)
(***************************************************************************)
MaxChunk == 3
MaxBatchSize == 2

(***************************************************************************)
(* Program constants of entrez_utils.py                                    *)
(***************************************************************************)
MAX_RETRY_ATTEMPTS == 2
RETRY_WAIT_TIME == 2
ENTREZ_RETMAX == 1000000000

ENTREZ_DB_NUCCORE == "nuccore"
ENTREZ_RETMODE_XML == "xml"
ENTREZ_RETMODE_TEXT == "text"
ENTREZ_RETTYPE_FASTA == "fasta"

None == "None"

VARIABLES
    gpc,             \* position of the guts_of_entrez generator
    gargs,           \* its arguments: db, retmode, len(chunk), batch_size
    search_results,  \* the WebEnv / QueryKey returned by Entrez.epost
    start,           \* the loop variable of guts_of_entrez
    frame,           \* arguments of the running entrez_efetch activation
    handle,          \* what entrez_efetch returned to guts_of_entrez
    requests,        \* every Entrez.efetch request issued, in order
    log,             \* events of the current entrez_efetch call
    batches,         \* outcome of every batch finished so far
    yielded,         \* records the generator has yielded
    exc              \* exception that left guts_of_entrez, or None

entrezVars == <<gpc, gargs, search_results, start, frame, handle, requests,
                log, batches, yielded, exc>>

VARIABLES
    repo,            \* the packaged config/config.yaml, as loaded
    userFile,        \* ~/.rip/config.yaml
    dbFetch,         \* <db_output>/database_fetch_config.yaml
    dbBuild,         \* <db_output>/database_build_config.yaml
    sampleFile,      \* <sample_output_dir>/sample_config.yaml
    analysisFile,    \* <analysis_output_dir>/<sample_prefix>_config.yaml
    last             \* the rip invocation that ran last, and what it did

cliVars == <<repo, userFile, dbFetch, dbBuild, sampleFile, analysisFile,
             last>>

vars == <<entrezVars, cliVars>>

(***************************************************************************)
(* haystack.py: values, dictionaries and files                             *)
(*                                                                         *)
(* A Python value is written as a string: None, the booleans True and      *)
(* False, "s:<text>" for a str, "i:<n>" for an int, "f:<x>" for a float,   *)
(* "l:" for the empty list.                                                *)
(* A dict is a function on Keys; ABSENT marks a key the dict lacks.        *)
(***************************************************************************)
ABSENT == "<absent>"
PyTrue == "True"
PyFalse == "False"

ConfigKeys == {"email", "genome_cache_folder", "batchsize",
               "mismatch_probability", "bowtie2_threads", "bowtie2_scaling",
               "use_conda"}
DatabaseKeys == {"dry_run", "mode", "db_output", "refseq_rep", "mtDNA",
                 "query", "query_file", "rank", "sequences", "accessions",
                 "seed", "genera", "cores", "mem", "unlock", "debug",
                 "snakemake"}
SampleKeys == {"sample_prefix", "sample_output_dir", "fastq", "fastq_r1",
               "fastq_r2", "sra", "collapse", "not_trim_adapters",
               "adaperremoval_flags", "cores", "mem", "unlock", "debug",
               "snakemake", "dry_run"}
AnalyseKeys == {"mode", "database", "sample", "genera", "analysis_output_dir",
                "read_probability_threshold", "cores", "mem", "unlock",
                "debug", "snakemake", "dry_run"}
DerivedKeys == {"workflow_dir", "PE_ANCIENT", "PE_MODERN", "SE",
                "trim_adapters"}
Keys == ConfigKeys \cup DatabaseKeys \cup SampleKeys \cup AnalyseKeys
            \cup DerivedKeys

EmptyDict == [k \in Keys |-> ABSENT]
Has(d, k) == d[k] # ABSENT
KeysOf(d) == {k \in Keys : Has(d, k)}
\* the dict whose items are those of the function f
Dict(f) == [k \in Keys |-> IF k \in DOMAIN f THEN f[k] ELSE ABSENT]

\* d[key] = v
Assign(d, key, v) == [k \in Keys |-> IF k = key THEN v ELSE d[k]]

UpdateReversed(d, e) == [k \in Keys |-> IF Has(d, k) THEN d[k] ELSE e[k]]
\* d.update((k, v) for k, v in e.items())
Update(d, e) == [k \in Keys |-> IF Has(e, k) THEN e[k] ELSE d[k]]

UpdateNotNone_All(d, e) ==
    [k \in Keys |-> IF Has(e, k) THEN e[k] ELSE d[k]]
\* d.update((k, v) for k, v in e.items() if v is not None)
UpdateNotNone(d, e) ==
    [k \in Keys |-> IF Has(e, k) /\ e[k] # None THEN e[k] ELSE d[k]]

\* {k: v for k, v in d.items() if (k, v) not in e.items()}
NotIn(d, e) == [k \in Keys |-> IF Has(d, k) /\ d[k] # e[k] THEN d[k] ELSE ABSENT]

\* bool(v)
Truthy(v) == v \notin {ABSENT, None, PyFalse, "s:", "i:0", "f:0.0", "l:"}

\* v > 0 for the numbers of the model
Positive(v) == v \in {"i:1", "i:5", "i:7", "f:0.05", "f:0.1", "f:2.5"}
IsInt(v) == v \in {"i:0", "i:1", "i:5", "i:7", "i:-1"}

NoFile == [exists |-> FALSE, data |-> EmptyDict]
File(d) == [exists |-> TRUE, data |-> d]

WriteOnce_Overwrite(file, d) == File(d)
\* if not os.path.exists(path): ... yaml.safe_dump(d, outfile)
WriteOnce(file, d) == IF file.exists THEN file ELSE File(d)

\* what snakemake.snakemake was called with, if it was called
NoEngine == [called |-> FALSE, snakefile |-> "", config |-> EmptyDict,
             targets |-> <<>>, dryrun |-> PyFalse, printshellcmds |-> FALSE,
             keepgoing |-> FALSE, restart_times |-> 0, unlock |-> PyFalse,
             show_failed_logs |-> PyFalse, entrez_api |-> 0,
             use_conda |-> ABSENT]

\* a directory nobody looked at
NoDir == [exists |-> FALSE, writable |-> FALSE, parentWritable |-> FALSE]

NoRun == [cmd |-> "", flags |-> FALSE, args |-> EmptyDict, dir |-> NoDir,
          outcome |-> "", merged |-> EmptyDict, engine |-> NoEngine,
          wrote |-> {}]

\* no rip invocation takes part in the fetch helper's runs
CliIdle ==
    /\ repo = EmptyDict
    /\ userFile = NoFile
    /\ dbFetch = NoFile
    /\ dbBuild = NoFile
    /\ sampleFile = NoFile
    /\ analysisFile = NoFile
    /\ last = NoRun


(***************************************************************************)
(* Exception classes that Entrez.efetch / Entrez.read can raise, with the  *)
(* base class each one derives from.                                       *)
(***************************************************************************)
ExcBase(e) ==
    CASE e = "IncompleteRead" -> "HTTPException"
      [] e = "HTTPException"  -> "Exception"
      [] e = "HTTPError"      -> "URLError"
      [] e = "URLError"       -> "OSError"
      [] e = "socketerror"    -> "Exception"
      [] e = "OSError"        -> "Exception"
      [] e = "RuntimeError"   -> "Exception"
      [] e = "ValidationError" -> "ValueError"
      [] e = "ValueError"     -> "Exception"
      [] OTHER                -> "Exception"

RECURSIVE IsInstance(_, _)
IsInstance(e, c) ==
    IF e = c THEN TRUE
    ELSE IF e = "Exception" THEN FALSE
    ELSE IsInstance(ExcBase(e), c)

\* socket.error is an alias of OSError
ClassOf(e) == IF e = "socketerror" THEN "OSError" ELSE e

EfetchRaises == {"HTTPException", "IncompleteRead", "URLError", "HTTPError",
                 "socketerror"}
ReadRaises == {"HTTPException", "HTTPError", "URLError", "RuntimeError",
               "ValidationError", "socketerror", "ValueError"}


(***************************************************************************)
(* entrez_efetch                                                           *)
(***************************************************************************)
NoHandle == [isNone |-> TRUE, request |-> 0]

\* the keyword arguments handed to Entrez.efetch by the activation f
EfetchRequestOf(f) ==
    [db |-> f.db, retmode |-> ENTREZ_RETMODE_XML,
     rettype |-> ENTREZ_RETTYPE_FASTA, retmax |-> ENTREZ_RETMAX,
     retstart |-> f.retstart, webenv |-> f.webenv,
     query_key |-> f.query_key]

\* which except clause of entrez_efetch takes the exception e: the clauses
\* are tried in order, the first whose class e is an instance of wins
EfetchExcept(e) ==
    IF IsInstance(ClassOf(e), "HTTPException") THEN "retry"
    ELSE IF IsInstance(ClassOf(e), "IncompleteRead")
            \/ IsInstance(ClassOf(e), "URLError") THEN "ditch"
    ELSE "propagate"

GiveUp_Early(attempt) == attempt >= MAX_RETRY_ATTEMPTS
GiveUp_Late(attempt) == attempt > MAX_RETRY_ATTEMPTS + 1
\* if attempt > MAX_RETRY_ATTEMPTS: return None
GiveUp(attempt) == attempt > MAX_RETRY_ATTEMPTS

RetryCall_NextOffset(f) == [f EXCEPT !.retstart = f.retstart + 1]
\* return entrez_efetch(db, retmode, retstart, webenv, query_key, attempt)
RetryCall(f) == f

RequestEvent(out) == [ev |-> "request", out |-> out, secs |-> 0]
WaitEvent == [ev |-> "wait", out |-> "", secs |-> RETRY_WAIT_TIME]

SleepLog_NoWait(l) == l
\* time.sleep(RETRY_WAIT_TIME) ahead of the next attempt
SleepLog(l) == Append(l, WaitEvent)

\* the try block and both except clauses of one activation
EfetchRequest ==
    /\ gpc = "try"
    /\ \E out \in {"ok"} \cup EfetchRaises :
         /\ requests' = Append(requests,
                [req |-> EfetchRequestOf(frame), attempt |-> frame.attempt,
                 batch |-> start, out |-> out])
         /\ log' = Append(log, RequestEvent(out))
         /\ IF out = "ok"
            THEN /\ handle' = [isNone |-> FALSE, request |-> Len(requests) + 1]
                 /\ gpc' = "ret"
                 /\ UNCHANGED <<frame, exc>>
            ELSE CASE EfetchExcept(out) = "retry" ->
                        /\ frame' = [frame EXCEPT !.attempt = frame.attempt + 1]
                        /\ IF GiveUp(frame.attempt + 1)
                           THEN handle' = NoHandle /\ gpc' = "ret"
                           ELSE handle' = handle /\ gpc' = "sleep"
                        /\ exc' = exc
                   [] EfetchExcept(out) = "ditch" ->
                        /\ handle' = NoHandle
                        /\ gpc' = "ret"
                        /\ UNCHANGED <<frame, exc>>
                   [] OTHER ->
                        /\ gpc' = "raised"
                        /\ exc' = out
                        /\ UNCHANGED <<frame, handle>>
    /\ UNCHANGED <<gargs, search_results, start, batches, yielded>>
    /\ UNCHANGED cliVars

\* the else branch: wait, then the recursive call
EfetchSleep ==
    /\ gpc = "sleep"
    /\ log' = SleepLog(log)
    /\ frame' = RetryCall(frame)
    /\ gpc' = "try"
    /\ UNCHANGED <<gargs, search_results, start, handle, requests, batches,
                   yielded, exc>>
    /\ UNCHANGED cliVars

(***************************************************************************)
(* guts_of_entrez                                                          *)
(***************************************************************************)
Min(a, b) == IF a < b THEN a ELSE b

\* the records the service holds for a request: those of the posted chunk
\* from retstart on, at most retmax of them (record i is chunk[i])
RecordsOf(h) ==
    LET r == requests[h.request].req
        upto == Min(gargs.n, r.retstart + r.retmax)
    IN  [i \in 1..(IF upto > r.retstart THEN upto - r.retstart ELSE 0)
            |-> r.retstart + i]

\* except (...) of the Entrez.read call
ReadCaught(e) ==
    \E c \in {"HTTPException", "HTTPError", "URLError", "RuntimeError",
              "ValidationError", "OSError"} : IsInstance(ClassOf(e), c)

\* Entrez.epost and Entrez.read(search_handle)
GutsEpost ==
    /\ gpc = "start"
    /\ \E w \in {"WebEnv1", "WebEnv2"} :
         search_results' = [WebEnv |-> w, QueryKey |-> "1"]
    /\ start' = 0
    /\ gpc' = "loop"
    /\ UNCHANGED <<gargs, frame, handle, requests, log, batches, yielded, exc>>
    /\ UNCHANGED cliVars

\* for start in range(0, len(chunk), batch_size): handle = entrez_efetch(...)
GutsLoop ==
    /\ gpc = "loop"
    /\ IF start < gargs.n
       THEN /\ frame' = [db |-> gargs.db, retmode |-> gargs.retmode,
                         retstart |-> start,
                         webenv |-> search_results.WebEnv,
                         query_key |-> search_results.QueryKey,
                         attempt |-> 1]
            /\ log' = <<>>
            /\ gpc' = "try"
       ELSE /\ gpc' = "done"
            /\ UNCHANGED <<frame, log>>
    /\ UNCHANGED <<gargs, search_results, start, handle, requests, batches,
                   yielded, exc>>
    /\ UNCHANGED cliVars

BatchDone(outcome) ==
    /\ batches' = Append(batches, [start |-> start, outcome |-> outcome])
    /\ start' = start + gargs.batch_size
    /\ gpc' = "loop"

\* if not handle: continue / if retmode == 'text': return handle
GutsAfterFetch ==
    /\ gpc = "ret"
    /\ IF handle.isNone
       THEN BatchDone("gaveup")
       ELSE IF gargs.retmode = "text"
       THEN /\ batches' = Append(batches,
                                 [start |-> start, outcome |-> "returned"])
            /\ gpc' = "done"
            /\ start' = start
       ELSE /\ gpc' = "read"
            /\ UNCHANGED <<batches, start>>
    /\ UNCHANGED <<gargs, search_results, frame, handle, requests, log,
                   yielded, exc>>
    /\ UNCHANGED cliVars

\* records = Entrez.read(handle) ... for rec in records: yield rec
GutsRead ==
    /\ gpc = "read"
    /\ \E out \in {"ok"} \cup ReadRaises :
         IF out = "ok"
         THEN /\ yielded' = yielded \o RecordsOf(handle)
              /\ BatchDone("success")
              /\ exc' = exc
         ELSE IF ReadCaught(out)
         THEN /\ BatchDone("parsefail")
              /\ UNCHANGED <<yielded, exc>>
         ELSE /\ gpc' = "raised"
              /\ exc' = out
              /\ UNCHANGED <<yielded, batches, start>>
    /\ UNCHANGED <<gargs, search_results, frame, handle, requests, log>>
    /\ UNCHANGED cliVars

InitEntrez ==
    /\ gpc = "start"
    /\ gargs \in [db : {"nuccore", "taxonomy"}, retmode : {"xml", "text"},
                  n : 0..MaxChunk, batch_size : 1..MaxBatchSize]
    /\ search_results = [WebEnv |-> "", QueryKey |-> ""]
    /\ start = 0
    /\ frame = [db |-> "", retmode |-> "", retstart |-> 0, webenv |-> "",
                query_key |-> "", attempt |-> 1]
    /\ handle = NoHandle
    /\ requests = <<>>
    /\ log = <<>>
    /\ batches = <<>>
    /\ yielded = <<>>
    /\ exc = None
    /\ CliIdle

NextEntrez ==
    \/ GutsEpost
    \/ GutsLoop
    \/ EfetchRequest
    \/ EfetchSleep
    \/ GutsAfterFetch
    \/ GutsRead

SpecEntrez == InitEntrez /\ [][NextEntrez]_vars
FairSpecEntrez == SpecEntrez /\ WF_vars(NextEntrez)

(***************************************************************************)
(* Properties of the bounded-retry fetch                                   *)
(***************************************************************************)
IsRequest(e) == e.ev = "request"
IsWait(e) == e.ev = "wait"
\* the requests of the current entrez_efetch call, in order
CallRequests == SelectSeq(log, IsRequest)
CallWaits == SelectSeq(log, IsWait)
Transient(out) == out # "ok" /\ IsInstance(ClassOf(out), "HTTPException")
OnlyTransientFailures ==
    \A i \in 1..Len(CallRequests) :
        CallRequests[i].out = "ok" \/ Transient(CallRequests[i].out)
AllButLastFail ==
    \A i \in 1..(Len(CallRequests) - 1) : Transient(CallRequests[i].out)

\* C1: when entrez_efetch returns after transient failures
\* (http.client.HTTPException) on attempts 1..N followed by a success on
\* attempt N+1 <= MAX_RETRY_ATTEMPTS, it returns the handle of that
\* successful request; and it never returns empty-handed after transient
\* failures alone while an attempt within MAX_RETRY_ATTEMPTS is still left.
C1_RetryThenSuccess ==
    (gpc = "ret" /\ OnlyTransientFailures) =>
        LET k == Len(CallRequests) IN
        /\ k >= 1 /\ k <= MAX_RETRY_ATTEMPTS
        /\ AllButLastFail
        /\ IF CallRequests[k].out = "ok"
           THEN /\ ~handle.isNone
                /\ handle.request = Len(requests)
                /\ requests[handle.request].out = "ok"
                /\ requests[handle.request].attempt = k
           ELSE k = MAX_RETRY_ATTEMPTS /\ handle.isNone

C1_Witness ==
    /\ gpc = "ret"
    /\ Len(CallRequests) = MAX_RETRY_ATTEMPTS
    /\ CallRequests[1].out = "HTTPException"
    /\ CallRequests[MAX_RETRY_ATTEMPTS].out = "ok"
    /\ ~handle.isNone

\* C2: once the request has failed with a transient network failure on every
\* attempt up to and including attempt MAX_RETRY_ATTEMPTS, entrez_efetch has
\* returned None: it issues no further request, and no exception leaves it.
C2_ExhaustedReturnsNone ==
    (/\ Len(CallRequests) >= MAX_RETRY_ATTEMPTS
     /\ \A i \in 1..MAX_RETRY_ATTEMPTS : Transient(CallRequests[i].out)) =>
        /\ Len(CallRequests) = MAX_RETRY_ATTEMPTS
        /\ gpc \notin {"try", "sleep", "raised"}
        /\ exc = None
        /\ gpc = "ret" => handle.isNone

C2_Witness ==
    /\ gpc = "ret"
    /\ Len(CallRequests) = MAX_RETRY_ATTEMPTS
    /\ \A i \in 1..MAX_RETRY_ATTEMPTS : CallRequests[i].out = "HTTPException"
    /\ handle.isNone
    /\ exc = None

\* C3: when the request fails with a truncated response
\* (http.client.IncompleteRead) or urllib.error.URLError, the batch is
\* abandoned without retrying: exactly one request is issued, no wait
\* happens, and None is returned.
C3_NonTransientNotRetried ==
    (Len(CallRequests) >= 1
     /\ CallRequests[1].out \in {"IncompleteRead", "URLError"}) =>
        /\ Len(log) = 1
        /\ gpc \notin {"try", "sleep", "raised"}
        /\ gpc = "ret" => handle.isNone

\* the bound on the requests of one call and on the attempt counter
C5_BoundedRequests ==
    /\ Len(CallRequests) <= MAX_RETRY_ATTEMPTS
    /\ \A i \in 1..Len(requests) :
          requests[i].attempt >= 1 /\ requests[i].attempt <= MAX_RETRY_ATTEMPTS
    /\ gpc = "try" => frame.attempt <= MAX_RETRY_ATTEMPTS

\* C5: entrez_efetch terminates (a call that is trying or sleeping comes to
\* return or raise), one call issues at most MAX_RETRY_ATTEMPTS requests,
\* and the attempt counter of every issued request is at most
\* MAX_RETRY_ATTEMPTS.
C5_BoundedAndTerminates ==
    /\ []C5_BoundedRequests
    /\ (gpc \in {"try", "sleep"}) ~> (gpc \in {"ret", "raised"})

C5_Witness ==
    /\ gpc = "ret"
    /\ Len(CallRequests) = MAX_RETRY_ATTEMPTS
    /\ Len(requests) > MAX_RETRY_ATTEMPTS

\* C6: every retry is the identical request: two requests issued for the
\* same batch carry the same db, retstart, webenv and query_key (and every
\* other request parameter); they differ in the attempt counter alone.
C6_IdenticalRetry ==
    \A i, j \in 1..Len(requests) :
        (i < j /\ requests[i].batch = requests[j].batch) =>
            /\ requests[i].req = requests[j].req
            /\ requests[i].req.retstart = requests[i].batch
            /\ requests[j].attempt = requests[i].attempt + (j - i)

C6_Witness ==
    \E i \in 1..Len(requests) :
        /\ i + 1 <= Len(requests)
        /\ requests[i].batch = requests[i + 1].batch
        /\ requests[i].batch > 0
        /\ requests[i + 1].attempt = MAX_RETRY_ATTEMPTS

\* C7: within one entrez_efetch call requests and waits alternate, starting
\* with a request; every wait lasts RETRY_WAIT_TIME and follows a failed
\* request; and when the call has returned or raised the last event is a
\* request, so no wait follows the final failure or a success.
C7_WaitBetweenAttempts ==
    /\ \A i \in 1..Len(log) :
          IF i % 2 = 1
          THEN IsRequest(log[i])
          ELSE /\ IsWait(log[i])
               /\ log[i].secs = RETRY_WAIT_TIME
               /\ Transient(log[i - 1].out)
    /\ gpc = "try" => (Len(log) = 0 \/ IsWait(log[Len(log)]))
    /\ gpc \in {"sleep", "ret", "raised"} =>
          (Len(log) >= 1 /\ IsRequest(log[Len(log)]))
    /\ gpc \in {"ret", "raised"} =>
          Len(CallWaits) = Len(CallRequests) - 1

C7_Witness ==
    /\ gpc = "ret"
    /\ Len(CallRequests) = MAX_RETRY_ATTEMPTS
    /\ Len(CallWaits) = 1
    /\ IsWait(log[2])

(***************************************************************************)
(* Properties of guts_of_entrez                                            *)
(***************************************************************************)
RECURSIVE Offsets(_)
\* range(0, len(chunk), batch_size) from s on
Offsets(s) == IF s < gargs.n THEN {s} \cup Offsets(s + gargs.batch_size) ELSE {}

FetchedOffsets == {requests[i].batch : i \in 1..Len(requests)}

RECURSIVE ExpectedYield(_)
\* the records of the successful batches among the first k finished ones
ExpectedYield(k) ==
    IF k = 0 THEN <<>>
    ELSE LET b == batches[k]
             h == CHOOSE i \in 1..Len(requests) :
                     requests[i].batch = b.start /\ requests[i].out = "ok"
         IN  IF b.outcome = "success"
             THEN ExpectedYield(k - 1)
                    \o RecordsOf([isNone |-> FALSE, request |-> h])
             ELSE ExpectedYield(k - 1)

\* C4: one failed batch does not abort the whole fetch: unless the service
\* raised an exception the code does not handle, the generator finishes
\* without raising, having attempted a fetch at every batch offset and
\* having yielded every record of every batch whose fetch succeeded.
C4_PartialFailureTolerated ==
    /\ gpc = "raised" => (exc # None /\ (EfetchExcept(exc) = "propagate"
                                          \/ ~ReadCaught(exc)))
    /\ gpc = "done" =>
          /\ FetchedOffsets = Offsets(0)
          /\ \A i \in 1..Len(batches) :
                batches[i].outcome \in {"gaveup", "parsefail", "success"}
          /\ yielded = ExpectedYield(Len(batches))


(***************************************************************************)
(* The email pattern r"[^@]+@[^@]+\.[^@]+" under re.match                  *)
(***************************************************************************)
Chars(v) ==
    CASE v = "s:a@b.c"    -> <<"a", "@", "b", ".", "c">>
      [] v = "s:x@y.org"  -> <<"x", "@", "y", ".", "o", "r", "g">>
      [] v = "s:nobody"   -> <<"n", "o", "b", "o", "d", "y">>
      [] v = "s:a@b"      -> <<"a", "@", "b">>
      [] v = "s:a@.c"     -> <<"a", "@", ".", "c">>
      [] OTHER            -> <<>>

\* one or more non-@, an @, one or more non-@, a dot, one or more non-@,
\* matched from the start of the string
EmailMatch(c) ==
    \E at \in 2..Len(c) :
        /\ c[at] = "@"
        /\ \A i \in 1..(at - 1) : c[i] # "@"
        /\ \E dot \in (at + 2)..(Len(c) - 1) :
              /\ c[dot] = "."
              /\ \A i \in (at + 1)..(dot + 1) : c[i] # "@"

EmailValid(v) == EmailMatch(Chars(v))

(***************************************************************************)
(* check_config_arguments                                                  *)
(***************************************************************************)
DirNotWritable_ExistingOnly(env) == env.exists /\ ~env.writable
\* os.path.exists / os.access of the genome cache folder and of its parent
DirNotWritable(env) ==
    IF env.exists THEN ~env.writable ELSE ~env.parentWritable

\* if args["use_conda"] not in ["True", "False"]
UseCondaRejected(v) == v \notin {"s:True", "s:False"}

\* the value args["email"] holds after the email block: an address that
\* does not match is replaced by what is typed at the prompt
CheckedEmail(v, typed) ==
    IF Truthy(v) /\ ~EmailValid(v) THEN typed ELSE v

CheckRaises(args, env) ==
    \/ Truthy(args["genome_cache_folder"]) /\ DirNotWritable(env)
    \/ Truthy(args["batchsize"])
         /\ (~IsInt(args["batchsize"]) \/ ~Positive(args["batchsize"]))
    \/ Truthy(args["mismatch_probability"])
         /\ ~Positive(args["mismatch_probability"])
    \/ Truthy(args["bowtie2_threads"])
         /\ (~IsInt(args["bowtie2_threads"])
             \/ ~Positive(args["bowtie2_threads"]))
    \/ Truthy(args["bowtie2_scaling"]) /\ ~Positive(args["bowtie2_scaling"])
    \/ Truthy(args["use_conda"]) /\ UseCondaRejected(args["use_conda"])

\* the whole function: whether it raises, and args as it leaves them
CheckConfigArguments(args, typed, env) ==
    [raised |-> CheckRaises(args, env),
     args   |-> Assign(args, "email", CheckedEmail(args["email"], typed))]

(***************************************************************************)
(* interactive_config_input                                                *)
(***************************************************************************)
RECURSIVE EmailLoop(_, _, _)
\* the while loop: reads is what is typed at the successive prompts
EmailLoop(reads, i, count) ==
    IF count < 3
    THEN IF ~EmailValid(reads[i])
         THEN EmailLoop(reads, i + 2, count + 1)
         ELSE [count |-> count, email |-> reads[i]]
    ELSE [count |-> count, email |-> reads[i - 1]]

\* int(x) and float(x) of what is typed, or the default on a bare enter
TypedInt(t, default) ==
    CASE t = "s:" -> default [] t = "s:7" -> "i:7" [] t = "s:0" -> "i:0"
      [] t = "s:-1" -> "i:-1" [] OTHER -> default
TypedFloat(t, default) ==
    CASE t = "s:" -> default [] t = "s:0.1" -> "f:0.1" [] t = "s:0" -> "f:0.0"
      [] OTHER -> default

InteractiveUserData(t) ==
    Dict([genome_cache_folder |->
             IF t.cache = "s:" THEN "s:~/rip_genomes" ELSE t.cache,
          email |-> EmailLoop(t.emails, 1, 0).email,
          batchsize |-> TypedInt(t.batchsize, "i:5"),
          mismatch_probability |-> TypedFloat(t.mismatch, "f:0.05"),
          bowtie2_threads |-> TypedInt(t.threads, "i:1"),
          bowtie2_scaling |-> TypedFloat(t.scaling, "f:2.5"),
          use_conda |-> IF t.conda = "s:" THEN PyTrue ELSE t.conda])

\* whether it raises, and the user_data it returns
InteractiveConfigInput(t, env) ==
    LET data == InteractiveUserData(t)
        chk  == CheckConfigArguments(data, t.retyped, env)
    IN  [raised |-> \/ EmailLoop(t.emails, 1, 0).count = 3
                    \/ DirNotWritable(env)
                    \/ chk.raised,
         data   |-> chk.args]


(***************************************************************************)
(* rip config                                                              *)
(***************************************************************************)
\* no fetch takes part in the rip invocations
EntrezIdle ==
    /\ gpc = "idle"
    /\ gargs = [db |-> "", retmode |-> "", n |-> 0, batch_size |-> 1]
    /\ search_results = [WebEnv |-> "", QueryKey |-> ""]
    /\ start = 0
    /\ frame = [db |-> "", retmode |-> "", retstart |-> 0, webenv |-> "",
                query_key |-> "", attempt |-> 1]
    /\ handle = NoHandle
    /\ requests = <<>>
    /\ log = <<>>
    /\ batches = <<>>
    /\ yielded = <<>>
    /\ exc = None

\* the defaults of the config parser: every option None, use_conda True
ConfigDefaults ==
    Dict([email |-> None, genome_cache_folder |-> None, batchsize |-> None,
          mismatch_probability |-> None, bowtie2_threads |-> None,
          bowtie2_scaling |-> None, use_conda |-> PyTrue])

\* the command lines of `rip config` of the model, as parse_args returns
\* them: --email, --genome-cache-folder, --batchsize and --use-conda given
\* or not
ConfigArgs ==
    {Update(ConfigDefaults,
            Dict([email |-> e, genome_cache_folder |-> g, batchsize |-> b,
                  use_conda |-> u])) :
        e \in {None, "s:a@b.c", "s:nobody", "s:"},
        g \in {None, "s:/data/genomes"},
        b \in {None, "i:7", "i:0"},
        u \in {PyTrue, PyFalse}}

\* what is typed at the prompts of interactive_config_input: the address
\* typed at the second prompt of a round is read and dropped
TypedEmails ==
    {<<"s:a@b.c", "s:", "s:", "s:", "s:", "s:">>,
     <<"s:a@b", "s:x@y.org", "s:a@b.c", "s:", "s:", "s:">>,
     <<"s:nobody", "s:x@y.org", "s:a@b", "s:x@y.org", "s:a@b.c", "s:">>,
     <<"s:nobody", "s:x@y.org", "s:a@b", "s:x@y.org", "s:a@.c", "s:x@y.org">>}
TypedInputs ==
    [emails : TypedEmails,
     cache : {"s:"}, batchsize : {"s:", "s:0", "s:-1"},
     mismatch : {"s:"}, threads : {"s:"}, scaling : {"s:"},
     conda : {"s:", "s:True", "s:False"},
     retyped : {"s:a@b.c"}]

\* what is typed when check_config_arguments asks for the address again
Retyped == {"s:a@b.c", "s:a@b"}
\* the prompt appears only for an address that does not match
RetypedFor(a) ==
    IF Truthy(a["email"]) /\ ~EmailValid(a["email"]) THEN Retyped ELSE {None}

\* a directory of the file system: whether it exists and is writable, and
\* whether its parent is writable
DirEnvs ==
    {[exists |-> TRUE, writable |-> TRUE, parentWritable |-> TRUE],
     [exists |-> TRUE, writable |-> FALSE, parentWritable |-> TRUE],
     [exists |-> FALSE, writable |-> FALSE, parentWritable |-> TRUE],
     [exists |-> FALSE, writable |-> FALSE, parentWritable |-> FALSE]}
AnyDir == [exists |-> TRUE, writable |-> TRUE, parentWritable |-> TRUE]
\* the genome cache folder is looked at only when the option names one
CacheEnvsFor(a) ==
    IF Truthy(a["genome_cache_folder"]) THEN DirEnvs ELSE {AnyDir}

\* the record of an invocation: its command line, the directory it named
\* as the file system has it, how it ended and what it did
Finish(cmd, flags, args, dir, outcome, merged, engine, wrote) ==
    last' = [cmd |-> cmd, flags |-> flags, args |-> args, dir |-> dir,
             outcome |-> outcome, merged |-> merged, engine |-> engine,
             wrote |-> wrote]

\* rip config with nothing else on the command line
ConfigInteractive(t, env) ==
    LET got == InteractiveConfigInput(t, env) IN
    /\ IF got.raised
       THEN /\ Finish("config", FALSE, ConfigDefaults, env, "RuntimeError",
                      EmptyDict, NoEngine, {})
            /\ UNCHANGED userFile
       ELSE IF ~userFile.exists
       THEN /\ userFile' = File(NotIn(got.data, repo))
            /\ Finish("config", FALSE, ConfigDefaults, env, "exit",
                      EmptyDict, NoEngine, {"user"})
       ELSE /\ userFile' = File(Update(userFile.data, got.data))
            /\ Finish("config", FALSE, ConfigDefaults, env, "ok",
                      EmptyDict, NoEngine, {"user"})
    /\ UNCHANGED <<repo, dbFetch, dbBuild, sampleFile, analysisFile,
                   entrezVars>>

\* rip config with options on the command line
ConfigFlags(a, retyped, env) ==
    LET chk == CheckConfigArguments(a, retyped, env) IN
    /\ IF ~userFile.exists \/ chk.raised
       THEN /\ Finish("config", TRUE, a, env, "RuntimeError", EmptyDict,
                      NoEngine, {})
            /\ UNCHANGED userFile
       ELSE /\ userFile' = File(UpdateNotNone(userFile.data, chk.args))
            /\ Finish("config", TRUE, a, env, "ok", EmptyDict, NoEngine,
                      {"user"})
    /\ UNCHANGED <<repo, dbFetch, dbBuild, sampleFile, analysisFile,
                   entrezVars>>

\* the packaged config/config.yaml: the defaults that the prompts and the
\* help texts of rip config name
RepoDefaults ==
    Dict([batchsize |-> "i:5", mismatch_probability |-> "f:0.05",
          bowtie2_threads |-> "i:1", bowtie2_scaling |-> "f:2.5",
          use_conda |-> PyTrue])

InitConfig ==
    /\ EntrezIdle
    /\ repo = RepoDefaults
    /\ userFile = NoFile
    /\ dbFetch = NoFile
    /\ dbBuild = NoFile
    /\ sampleFile = NoFile
    /\ analysisFile = NoFile
    /\ last = NoRun

NextConfig ==
    \/ \E t \in TypedInputs, env \in DirEnvs : ConfigInteractive(t, env)
    \/ \E a \in ConfigArgs :
          \E r \in RetypedFor(a), env \in CacheEnvsFor(a) :
              ConfigFlags(a, r, env)

SpecConfig == InitConfig /\ [][NextConfig]_vars

\* C9: configuration setup rejects an invalid email string: the email that
\* the user config file holds, whether `rip config` wrote it from the
\* prompts or from --email, matches the address pattern (it has an '@' and
\* a domain segment after it).
C9_InvalidEmailRejected ==
    (userFile.exists /\ Has(userFile.data, "email")) =>
        EmailValid(userFile.data["email"])


(***************************************************************************)
(* rip database                                                            *)
(***************************************************************************)
MAX_ENTREZ_REQUESTS == 3

\* cpu_count() and MAX_MEM_MB of the machine the model runs rip on
CpuCount == "i:4"
MaxMemMb == "f:8000.0"

\* argparse type=bool: bool(text) of the option's value, False when the
\* option is not given
ParseBool(text) ==
    IF text = None \/ text = "s:" THEN PyFalse ELSE PyTrue

\* the ways the model's command lines ask for the database sequences:
\* the values typed for --refseq-rep, --mtDNA, --query and --query-file
DbSources ==
    {[refseq_rep |-> "s:True", mtDNA |-> PyFalse, query |-> None,
      query_file |-> None],
     [refseq_rep |-> None, mtDNA |-> PyFalse, query |-> "s:q1",
      query_file |-> None],
     [refseq_rep |-> None, mtDNA |-> PyFalse, query |-> None,
      query_file |-> "s:q.txt"],
     [refseq_rep |-> "s:True", mtDNA |-> PyTrue, query |-> None,
      query_file |-> None],
     [refseq_rep |-> "s:False", mtDNA |-> PyTrue, query |-> "s:q1",
      query_file |-> None],
     [refseq_rep |-> None, mtDNA |-> PyFalse, query |-> "s:q1",
      query_file |-> "s:q.txt"],
     [refseq_rep |-> None, mtDNA |-> PyFalse, query |-> "s:",
      query_file |-> "s:q.txt"]}

\* vars(args) of the database parser for a command line of the model
DatabaseArgsOf(mode, out, src) ==
    Dict([dry_run |-> PyFalse, mode |-> mode, db_output |-> out,
          refseq_rep |-> ParseBool(src.refseq_rep), mtDNA |-> src.mtDNA,
          query |-> src.query, query_file |-> src.query_file,
          rank |-> "s:species", sequences |-> "s:", accessions |-> "s:",
          seed |-> "i:1", genera |-> "l:", cores |-> CpuCount,
          mem |-> MaxMemMb, unlock |-> PyFalse, debug |-> PyFalse,
          snakemake |-> None])

DbModes == {"s:fetch", "s:index", "s:build"}

\* fetches that name custom sequences or custom accessions: with no other
\* source, and next to a query
CustomArgs ==
    {Assign(DatabaseArgsOf("s:fetch", "s:db",
                           [refseq_rep |-> None, mtDNA |-> PyFalse,
                            query |-> None, query_file |-> None]),
            "sequences", "s:seqs.tsv"),
     Assign(DatabaseArgsOf("s:fetch", "s:db",
                           [refseq_rep |-> None, mtDNA |-> PyFalse,
                            query |-> "s:q1", query_file |-> None]),
            "accessions", "s:acc.tsv")}

DatabaseArgs ==
    {DatabaseArgsOf(mode, "s:db", src) : mode \in DbModes, src \in DbSources}
    \cup {DatabaseArgsOf(mode, None, [refseq_rep |-> "s:True",
                                      mtDNA |-> PyFalse, query |-> None,
                                      query_file |-> None]) :
              mode \in DbModes}
    \cup CustomArgs

\* what the query file holds
QueryFileTexts == {"s: ", "s:q2 "}
QueryTextsFor(a) ==
    IF Truthy(a["query_file"]) THEN QueryFileTexts ELSE {"s:"}
\* the output directory is looked at only when the option names one
\* and a directory that holds a yaml file exists
OutputEnvsFor(a) ==
    IF Truthy(a["db_output"])
    THEN {e \in DirEnvs : (dbFetch.exists \/ dbBuild.exists) => e.exists}
    ELSE {AnyDir}

\* str.rstrip() of the texts of the model
RStrip(t) ==
    CASE t = "s: " -> "s:" [] t = "s:q2 " -> "s:q2" [] OTHER -> t

\* the output directory as the subcommands rewrite it: the working
\* directory for "./", under it for a path holding "./", else under home
NormalisePath(p) ==
    CASE p = "s:./"    -> "s:$CWD"
      [] p = "s:./db"  -> "s:$CWD/db"
      [] p = "s:db"    -> "s:$HOME/db"
      [] p = "s:./out" -> "s:$CWD/out"
      [] p = "s:out"   -> "s:$HOME/out"
      [] p = "s:res"   -> "s:$HOME/res"
      [] p = "s:"      -> "s:$HOME/"
      [] OTHER         -> p

\* str(v).lower() of a bool
StrLower(v) ==
    CASE v = PyTrue -> "s:true" [] v = PyFalse -> "s:false" [] OTHER -> v

\* a path under the output directory
Target(dir, file) == dir \o file

\* if cond: target_list.append(t)
AppendIf(cond, s, t) == IF cond THEN Append(s, t) ELSE s

\* the first check of the sources: every comparison is against False/None
NoSourceGiven(c) ==
    /\ c["refseq_rep"] = PyFalse
    /\ c["query"] = None
    /\ c["query_file"] = None
    /\ c["accessions"] = None
    /\ c["sequences"] = None

MutuallyExclusive_Swapped(c) == Truthy(c["mtDNA"]) /\ ~Truthy(c["refseq_rep"])
\* if database_config["mtDNA"] and database_config["refseq_rep"]
MutuallyExclusive(c) == Truthy(c["mtDNA"]) /\ Truthy(c["refseq_rep"])

\* if database_config["query"] and database_config["query_file"]
BothQueries(c) == Truthy(c["query"]) /\ Truthy(c["query_file"])

FetchTargets(c) ==
    LET out == c["db_output"]
        t1 == AppendIf(c["query"] # "s:", <<>>,
                       Target(out, "/bowtie/entrez_query.fasta.gz"))
        t2 == AppendIf(Truthy(c["refseq_rep"]), t1,
                       Target(out, "/bowtie/refseq_prok.fasta.gz"))
        t3 == AppendIf(c["sequences"] # "s:", t2,
                       Target(out, "/bowtie/custom_seqs.fasta.gz"))
    IN  AppendIf(c["accessions"] # "s:", t3,
                 Target(out, "/bowtie/custom_acc.fasta.gz"))

IndexTargets(c) == <<Target(c["db_output"], "/bowtie/bowtie_index.done")>>

BuildTargets(c) ==
    <<Target(c["db_output"], "/idx_database.done"),
      Target(c["db_output"], "/bowtie/bowtie_index.done")>>

EngineCall_DebugSerial(snakefile, config, targets, a, debug) ==
    [called |-> TRUE, snakefile |-> snakefile, config |-> config,
     targets |-> targets, dryrun |-> a["dry_run"],
     printshellcmds |-> Truthy(debug), keepgoing |-> ~Truthy(debug),
     restart_times |-> IF Truthy(debug) THEN 0 ELSE 3,
     unlock |-> a["unlock"], show_failed_logs |-> a["debug"],
     entrez_api |-> IF Truthy(debug) THEN 1 ELSE MAX_ENTREZ_REQUESTS,
     use_conda |-> config["use_conda"]]
\* the call of snakemake.snakemake that ends database, sample and analyse
EngineCall(snakefile, config, targets, a, debug) ==
    [called |-> TRUE, snakefile |-> snakefile, config |-> config,
     targets |-> targets, dryrun |-> a["dry_run"],
     printshellcmds |-> Truthy(debug), keepgoing |-> ~Truthy(debug),
     restart_times |-> IF Truthy(debug) THEN 0 ELSE 3,
     unlock |-> a["unlock"], show_failed_logs |-> a["debug"],
     entrez_api |-> MAX_ENTREZ_REQUESTS, use_conda |-> config["use_conda"]]

LoadFetchConfig_KeepMerged(c, fetch) == c
\* --mode index: database_config = yaml.safe_load(fin) of the fetch yaml
LoadFetchConfig(c, fetch) ==
    IF c["mode"] = "s:index" THEN fetch.data ELSE c

\* --mode index: if not os.path.exists(database_fetch_yaml)
IndexWithoutFetch(c, fetch) == c["mode"] = "s:index" /\ ~fetch.exists

BuildAfterFetch_Inverted(c, fetch) == c["mode"] = "s:build" /\ ~fetch.exists
\* --mode build: if os.path.exists(database_fetch_yaml)
BuildAfterFetch(c, fetch) == c["mode"] = "s:build" /\ fetch.exists

\* the outcome of a subcommand that raised: nothing written, no workflow
Raised(merged, fetch, build, sample) ==
    [outcome |-> "RuntimeError", merged |-> merged, engine |-> NoEngine,
     fetch |-> fetch, build |-> build, sample |-> sample, wrote |-> {}]

\* Rip.database from the merge on, for a configured installation: rp is
\* the packaged config, user the user's, fetch and build the yaml files of
\* the output directory, env that directory, qtext the query file's text
DatabaseResult(a, env, qtext, rp, user, fetch, build, sample) ==
    LET rr     == Update(rp, user)
        merged == Update(rr, a)
        c1     == IF Truthy(merged["query_file"])
                  THEN Assign(merged, "query", RStrip(qtext))
                  ELSE merged
        c2     == Assign(c1, "db_output", NormalisePath(c1["db_output"]))
        isFetch == c2["mode"] = "s:fetch"
        isIndex == c2["mode"] = "s:index"
        fetch2 == IF isFetch THEN WriteOnce(fetch, c2) ELSE fetch
        c3     == LoadFetchConfig(c2, fetch)
        isBuild == c3["mode"] = "s:build"
        build2 == IF isBuild THEN WriteOnce(build, c3) ELSE build
        targets == (IF isFetch THEN FetchTargets(c2) ELSE <<>>)
                   \o (IF isIndex THEN IndexTargets(c2) ELSE <<>>)
                   \o (IF isBuild THEN BuildTargets(c3) ELSE <<>>)
        c4     == Assign(Assign(c3, "workflow_dir", "s:$PKG/workflow"),
                         "mtDNA", StrLower(c3["mtDNA"]))
        stop   == Raised(merged, fetch, build, sample)
    IN  IF NoSourceGiven(merged) THEN stop
        ELSE IF MutuallyExclusive(merged) THEN stop
        ELSE IF BothQueries(merged) THEN stop
        ELSE IF Truthy(merged["query_file"]) /\ c1["query"] \in {"s:", "s: "}
             THEN stop
        ELSE IF Truthy(c1["db_output"]) /\ DirNotWritable(env) THEN stop
        ELSE IF c1["db_output"] = None THEN stop
        ELSE IF IndexWithoutFetch(c2, fetch) THEN stop
        ELSE IF BuildAfterFetch(c3, fetch) THEN stop
        ELSE [outcome |-> "ok", merged |-> merged,
              engine |-> EngineCall("Snakefile_db", c4, targets, a,
                                    c4["debug"]),
              fetch |-> fetch2, build |-> build2, sample |-> sample,
              wrote |-> (IF fetch2 # fetch THEN {"fetch"} ELSE {})
                        \cup (IF build2 # build THEN {"build"} ELSE {})]

\* a subcommand's effect on the files and on the record of the last run
Apply(cmd, a, env, r) ==
    /\ dbFetch' = r.fetch
    /\ dbBuild' = r.build
    /\ sampleFile' = r.sample
    /\ Finish(cmd, TRUE, a, env, r.outcome, r.merged, r.engine, r.wrote)
    /\ UNCHANGED <<repo, userFile, analysisFile, entrezVars>>

\* rip database with options on the command line, the packaged Snakefile_db
\* and config/config.yaml in place
Database(a, env, qtext) ==
    IF ~userFile.exists
    THEN Apply("database", a, env,
               Raised(EmptyDict, dbFetch, dbBuild, sampleFile))
    ELSE Apply("database", a, env,
               DatabaseResult(a, env, qtext, repo, userFile.data, dbFetch,
                              dbBuild, sampleFile))


(***************************************************************************)
(* rip sample                                                              *)
(***************************************************************************)
PyBool(b) == IF b THEN PyTrue ELSE PyFalse

\* the text of a str of the model
Text(v) ==
    CASE v = "s:S1" -> "S1" [] v = "s:SRR1" -> "SRR1" [] OTHER -> ""

\* the read inputs of the model's command lines: the values typed for
\* --fastq, --fastq-r1, --fastq-r2, --sra and --collapse
SampleReads ==
    {[fastq |-> "s:r.fq", fastq_r1 |-> None, fastq_r2 |-> None,
      sra |-> None, collapse |-> PyFalse],
     [fastq |-> None, fastq_r1 |-> "s:r1.fq", fastq_r2 |-> "s:r2.fq",
      sra |-> None, collapse |-> PyFalse],
     [fastq |-> "s:r.fq", fastq_r1 |-> "s:r1.fq", fastq_r2 |-> None,
      sra |-> None, collapse |-> PyFalse],
     [fastq |-> None, fastq_r1 |-> None, fastq_r2 |-> None,
      sra |-> "s:SRR1", collapse |-> PyTrue],
     [fastq |-> "s:r.fq", fastq_r1 |-> None, fastq_r2 |-> "s:r2.fq",
      sra |-> None, collapse |-> PyFalse],
     [fastq |-> "s:r.fq", fastq_r1 |-> None, fastq_r2 |-> None,
      sra |-> None, collapse |-> PyTrue]}

\* vars(args) of the sample parser for a command line of the model
SampleArgsOf(r) ==
    Dict([sample_prefix |-> "s:S1", sample_output_dir |-> "s:out",
          fastq |-> r.fastq, fastq_r1 |-> r.fastq_r1,
          fastq_r2 |-> r.fastq_r2, sra |-> r.sra, collapse |-> r.collapse,
          not_trim_adapters |-> PyFalse, adaperremoval_flags |-> "s:",
          cores |-> CpuCount, mem |-> MaxMemMb, unlock |-> PyFalse,
          debug |-> PyFalse, snakemake |-> None, dry_run |-> PyFalse])

SampleArgs == {SampleArgsOf(r) : r \in SampleReads}

\* the sample output directory: as DirEnvs, and whether the parent of its
\* parent is writable
SampleDirEnvs ==
    {[exists |-> TRUE, writable |-> TRUE, parentWritable |-> TRUE,
      grandParentWritable |-> TRUE],
     [exists |-> TRUE, writable |-> FALSE, parentWritable |-> TRUE,
      grandParentWritable |-> TRUE],
     [exists |-> FALSE, writable |-> FALSE, parentWritable |-> FALSE,
      grandParentWritable |-> TRUE],
     [exists |-> FALSE, writable |-> FALSE, parentWritable |-> FALSE,
      grandParentWritable |-> FALSE]}

\* a directory that holds sample_config.yaml exists
SampleEnvs == {e \in SampleDirEnvs : sampleFile.exists => e.exists}

SampleDirNotWritable(env) ==
    IF env.exists THEN ~env.writable
    ELSE ~env.parentWritable /\ ~env.grandParentWritable

\* whether the fastq files the command line names exist matters only when
\* it names one; what the SRA says of the accession only when it has one
FilesExistFor(a) ==
    IF Truthy(a["fastq"]) \/ Truthy(a["fastq_r1"]) \/ Truthy(a["fastq_r2"])
    THEN BOOLEAN ELSE {TRUE}
PairedFor(a) == IF a["sra"] # None THEN BOOLEAN ELSE {FALSE}

\* the flags PE_ANCIENT, PE_MODERN and SE from the fastq options
ReadFlags(c) ==
    LET pe == c["fastq_r1"] # None /\ c["fastq_r2"] # None IN
    Assign(Assign(Assign(c,
        "PE_ANCIENT", PyBool(pe /\ Truthy(c["collapse"]))),
        "PE_MODERN", PyBool(pe /\ ~Truthy(c["collapse"]))),
        "SE", PyBool(c["fastq"] # None))

WrongReadCombination_R1Only(c) ==
    Truthy(c["fastq_r1"]) /\ c["fastq"] # None
\* if (fastq_r1 or fastq_r2 is not None) and (fastq is not None)
WrongReadCombination(c) ==
    /\ Truthy(c["fastq_r1"]) \/ c["fastq_r2"] # None
    /\ c["fastq"] # None

MissingInput(c, exist) ==
    /\ Truthy(c["fastq"]) \/ Truthy(c["fastq_r1"]) \/ Truthy(c["fastq_r2"])
    /\ ~exist

\* the block that an --sra accession runs: the prefix, the flags from the
\* SRA's answer, and the fastq paths under the output directory
SraBlock(c, paired) ==
    IF c["sra"] = None THEN c
    ELSE
      LET p  == Assign(c, "sample_prefix", c["sra"])
          f  == IF paired
                THEN IF Truthy(p["collapse"])
                     THEN Assign(p, "PE_ANCIENT", PyTrue)
                     ELSE Assign(p, "PE_MODERN", PyTrue)
                ELSE Assign(p, "SE", PyTrue)
          out == f["sample_output_dir"]
          acc == Text(f["sra"])
      IN  IF Truthy(f["PE_MODERN"]) \/ Truthy(f["PE_ANCIENT"])
          THEN Assign(Assign(f,
                  "fastq_r1", out \o "/sra_data/PE/" \o acc
                                  \o "_R1.fastq.gz"),
                  "fastq_r2", out \o "/sra_data/PE/" \o acc
                                  \o "_R2.fastq.gz")
          ELSE IF Truthy(f["SE"])
          THEN Assign(f, "fastq", out \o "/sra_data/SE/" \o acc
                                       \o ".fastq.gz")
          ELSE f

SampleTargets(c) ==
    LET out  == c["sample_output_dir"]
        name == Text(c["sample_prefix"])
        size == <<out \o "/fastq_inputs/meta/" \o name \o ".size">>
        pre  == IF Truthy(c["PE_MODERN"])
                THEN out \o "/fastq_inputs/PE_mod/" \o name
                         \o "_R1_adRm.fastq.gz"
                ELSE IF Truthy(c["PE_ANCIENT"])
                THEN out \o "/fastq_inputs/PE_anc/" \o name
                         \o "_adRm.fastq.gz"
                ELSE IF Truthy(c["SE"])
                THEN out \o "/fastq_inputs/SE/" \o name \o "_adRm.fastq.gz"
                ELSE ""
    IN  AppendIf(Truthy(c["trim_adapters"]), size, pre)

\* Rip.sample from the merge on, for a configured installation: env is the
\* output directory, exist whether the named fastq files exist, paired
\* what the SRA says of the accession
SampleResult(a, env, exist, paired, rp, user, fetch, build, sample) ==
    LET rr     == Update(rp, user)
        merged == Update(rr, a)
        c1     == Assign(merged, "sample_output_dir",
                         NormalisePath(merged["sample_output_dir"]))
        c2     == ReadFlags(c1)
        c3     == SraBlock(c2, paired)
        c4     == Assign(c3, "trim_adapters",
                         PyBool(~Truthy(c3["not_trim_adapters"])))
        sample2 == WriteOnce(sample, NotIn(c4, rr))
        c5     == Assign(c4, "workflow_dir", "s:$PKG/workflow")
        stop   == Raised(merged, fetch, build, sample)
    IN  IF Truthy(merged["sample_output_dir"]) /\ SampleDirNotWritable(env)
        THEN stop
        ELSE IF merged["sample_output_dir"] = None THEN stop
        ELSE IF WrongReadCombination(c2) THEN stop
        ELSE IF MissingInput(c2, exist) THEN stop
        ELSE IF c2["sra"] = None /\ c2["sample_prefix"] = None THEN stop
        ELSE IF Truthy(c3["fastq"]) /\ Truthy(c3["collapse"]) THEN stop
        ELSE [outcome |-> "ok", merged |-> merged,
              engine |-> EngineCall("Snakefile_sample", c5,
                                    SampleTargets(c4), a, a["debug"]),
              fetch |-> fetch, build |-> build, sample |-> sample2,
              wrote |-> IF sample2 # sample THEN {"sample"} ELSE {}]

Sample_NoUserCheck(a, env, exist, paired) ==
    Apply("sample", a, env,
          SampleResult(a, env, exist, paired, repo, userFile.data, dbFetch,
                       dbBuild, sampleFile))
\* rip sample with options on the command line, the packaged
\* Snakefile_sample and config/config.yaml in place
Sample(a, env, exist, paired) ==
    IF ~userFile.exists
    THEN Apply("sample", a, env,
               Raised(EmptyDict, dbFetch, dbBuild, sampleFile))
    ELSE Apply("sample", a, env,
               SampleResult(a, env, exist, paired, repo, userFile.data,
                            dbFetch, dbBuild, sampleFile))

(***************************************************************************)
(* The subcommands database and sample on an installation as rip config    *)
(* leaves it                                                               *)
(***************************************************************************)
\* a packaged config that also holds options of the subcommands
RepoWithOptions ==
    Dict([batchsize |-> "i:5", mismatch_probability |-> "f:0.05",
          bowtie2_threads |-> "i:1", bowtie2_scaling |-> "f:2.5",
          use_conda |-> PyTrue, rank |-> "s:genus", mem |-> "f:1.0"])

\* ~/.rip/config.yaml as the first rip config writes it, and as a later
\* rip config --batchsize 7 --use-conda false leaves it
UserFirst ==
    Dict([email |-> "s:a@b.c", genome_cache_folder |-> "s:~/rip_genomes",
          use_conda |-> "s:True"])
UserLater ==
    Dict([email |-> "s:a@b.c", genome_cache_folder |-> "s:~/rip_genomes",
          batchsize |-> "i:7", use_conda |-> PyFalse])

Installations ==
    {<<RepoDefaults, NoFile>>,
     <<RepoDefaults, File(UserFirst)>>,
     <<RepoWithOptions, File(UserLater)>>}

InitCli ==
    /\ EntrezIdle
    /\ \E i \in Installations : repo = i[1] /\ userFile = i[2]
    /\ dbFetch = NoFile
    /\ dbBuild = NoFile
    /\ sampleFile = NoFile
    /\ analysisFile = NoFile
    /\ last = NoRun

NextCli ==
    \/ \E a \in DatabaseArgs :
          \E env \in OutputEnvsFor(a), qtext \in QueryTextsFor(a) :
              Database(a, env, qtext)
    \/ \E a \in SampleArgs :
          \E env \in SampleEnvs, exist \in FilesExistFor(a),
             paired \in PairedFor(a) :
              Sample(a, env, exist, paired)

SpecCli == InitCli /\ [][NextCli]_vars


(***************************************************************************)
(* Properties of the layered configuration and of the flag checks          *)
(***************************************************************************)
\* the value the layers give key k: the flags', else the user config's,
\* else the packaged config's (ABSENT when no layer holds k)
LayerValue(k) ==
    IF Has(last.args, k) THEN last.args[k]
    ELSE IF Has(userFile.data, k) THEN userFile.data[k]
    ELSE repo[k]

\* C8: for the database and sample subcommands the merged configuration
\* (before path normalisation and derived keys) is the packaged defaults
\* updated by the user config updated by the invocation's flags, key-wise:
\* every key has the value of the last layer that holds it, a key that only
\* an earlier layer holds keeps that layer's value, and no other key appears.
C8_LayeredMerge ==
    (last.cmd \in {"database", "sample"} /\ userFile.exists) =>
        \A k \in Keys : last.merged[k] = LayerValue(k)

C8_Witness ==
    /\ last.cmd = "sample"
    /\ last.outcome = "ok"
    /\ \E k \in Keys :
          /\ Has(repo, k) /\ Has(userFile.data, k) /\ ~Has(last.args, k)
          /\ repo[k] # userFile.data[k]
          /\ last.merged[k] = userFile.data[k]
    /\ \E k \in Keys :
          /\ Has(repo, k) /\ Has(last.args, k)
          /\ repo[k] # last.args[k]
          /\ last.merged[k] = last.args[k]
    /\ \E k \in Keys :
          /\ Has(repo, k) /\ ~Has(userFile.data, k) /\ ~Has(last.args, k)
          /\ last.merged[k] = repo[k]
    /\ \E k \in Keys :
          /\ ~Has(repo, k) /\ Has(userFile.data, k) /\ ~Has(last.args, k)
          /\ last.merged[k] = userFile.data[k]

\* --mtDNA given together with --refseq-rep, or --query together with
\* --query-file, each with a value (an empty string is no value)
FlagsConflict(a) ==
    \/ Truthy(a["mtDNA"]) /\ Truthy(a["refseq_rep"])
    \/ Truthy(a["query"]) /\ Truthy(a["query_file"])

\* C10: database subcommand: conflicting flags raise immediately and abort
\* the invocation: when --mtDNA is given together with --refseq-rep, or
\* --query together with --query-file, the invocation ends in a
\* RuntimeError, it leaves every configuration file as it found it, and it
\* does not invoke the workflow engine.
C10_ConflictingFlagsAbort ==
    [][(last'.cmd = "database" /\ FlagsConflict(last'.args)) =>
          /\ last'.outcome = "RuntimeError"
          /\ ~last'.engine.called
          /\ last'.wrote = {}
          /\ UNCHANGED <<userFile, dbFetch, dbBuild, sampleFile,
                         analysisFile>>]_vars

C10_Witness ==
    /\ last.cmd = "database"
    /\ userFile.exists
    /\ Truthy(last.args["query"]) /\ Truthy(last.args["query_file"])
    /\ last.args["db_output"] # None
    /\ last.outcome = "RuntimeError"
    /\ dbBuild.exists


(***************************************************************************)
(* rip config and rip database naming directories of the file system       *)
(***************************************************************************)
\* what is typed at the prompts, and the options given, in the runs that
\* look at directories
DirTyped == {t \in TypedInputs : /\ t.emails[1] = "s:a@b.c"
                                 /\ t.batchsize = "s:"
                                 /\ t.conda = "s:False"}
DirConfigArgs == {a \in ConfigArgs : /\ a["email"] = None
                                     /\ a["batchsize"] = None
                                     /\ a["use_conda"] = PyFalse}
DirDatabaseArgs ==
    {a \in DatabaseArgs : /\ a["mode"] \in {"s:fetch", "s:build"}
                          /\ a["refseq_rep"] = PyTrue
                          /\ a["mtDNA"] = PyFalse}

NextDirs ==
    \/ \E t \in DirTyped, env \in DirEnvs : ConfigInteractive(t, env)
    \/ \E a \in DirConfigArgs :
          \E r \in RetypedFor(a), env \in CacheEnvsFor(a) :
              ConfigFlags(a, r, env)
    \/ \E a \in DirDatabaseArgs :
          \E env \in OutputEnvsFor(a), qtext \in QueryTextsFor(a) :
              Database(a, env, qtext)

SpecDirs == InitConfig /\ [][NextDirs]_vars

\* the invocation names a directory: the database output directory, or the
\* genome cache folder (the prompts of rip config always give one)
NamesDir(run) ==
    \/ run.cmd = "database" /\ Truthy(run.args["db_output"])
    \/ run.cmd = "config" /\ run.flags
         /\ Truthy(run.args["genome_cache_folder"])
    \/ run.cmd = "config" /\ ~run.flags

\* the directory exists and is not writable, or it does not exist and its
\* parent is not writable
CannotWrite(d) ==
    \/ d.exists /\ ~d.writable
    \/ ~d.exists /\ ~d.parentWritable

\* C11: a non-writable output directory raises immediately: when rip
\* database names an output directory (or rip config a genome cache folder)
\* that exists and is not writable, or that does not exist and whose parent
\* is not writable, the invocation ends in a RuntimeError, persists nothing
\* and does not invoke the workflow engine.
C11_NonWritableDirRaises ==
    [][(NamesDir(last') /\ CannotWrite(last'.dir)) =>
          /\ last'.outcome = "RuntimeError"
          /\ ~last'.engine.called
          /\ last'.wrote = {}
          /\ UNCHANGED <<userFile, dbFetch, dbBuild, sampleFile,
                         analysisFile>>]_vars

C11_Witness ==
    /\ last.cmd = "database"
    /\ userFile.exists
    /\ last.args["mode"] = "s:fetch"
    /\ Truthy(last.args["db_output"])
    /\ ~FlagsConflict(last.args)
    /\ ~last.dir.exists /\ ~last.dir.parentWritable
    /\ last.outcome = "RuntimeError"
    /\ ~dbFetch.exists


(***************************************************************************)
(* rip analyse                                                             *)
(***************************************************************************)
\* vars(args) of the analyse parser for a command line of the model: -D and
\* -S name the directories that rip database and rip sample wrote to
AnalyseArgsOf(mode, out, flag) ==
    Dict([mode |-> mode, database |-> "s:$HOME/db", sample |-> "s:$HOME/out",
          genera |-> "l:", analysis_output_dir |-> out,
          read_probability_threshold |-> "f:0.75", cores |-> CpuCount,
          mem |-> MaxMemMb, unlock |-> PyFalse, debug |-> flag,
          snakemake |-> None, dry_run |-> flag])

AnalyseArgs ==
    {AnalyseArgsOf("s:filter", "s:res", PyFalse),
     AnalyseArgsOf("s:filter", "s:res", PyTrue),
     AnalyseArgsOf("s:abundances", "s:res", PyFalse),
     AnalyseArgsOf("s:abundances", None, PyFalse)}

\* os.path.exists of the directories -D and -S name: a directory that holds
\* a yaml file exists
DbDirExists == IF dbFetch.exists \/ dbBuild.exists THEN {TRUE} ELSE BOOLEAN
SampleDirExists == IF sampleFile.exists THEN {TRUE} ELSE BOOLEAN

\* the database directory holds exactly one of the two yaml files
OneDbYaml(fetch, build) == fetch.exists # build.exists

\* the results directory is looked at only by a run that gets as far as the
\* merge and names one
AnalyseEnvsFor(a, dbDir, sampleDir) ==
    IF /\ userFile.exists /\ dbDir /\ sampleDir
       /\ OneDbYaml(dbFetch, dbBuild) /\ sampleFile.exists
       /\ Truthy(a["analysis_output_dir"])
    THEN {e \in DirEnvs : analysisFile.exists => e.exists}
    ELSE {AnyDir}

AnalyseTargets(c) ==
    LET out  == c["analysis_output_dir"]
        name == Text(c["sample_prefix"])
        mode == c["mode"]
        bowtie == IF Truthy(c["PE_MODERN"])
                  THEN out \o "/fastq/PE/" \o name \o "_mapq_pair.readlen"
                  ELSE IF Truthy(c["PE_ANCIENT"]) \/ Truthy(c["SE"])
                  THEN out \o "/fastq/SE/" \o name \o "_mapq.readlen"
                  ELSE ""
        t1 == AppendIf(mode = "s:filter", <<>>, bowtie)
        t2 == AppendIf(mode = "s:align", t1,
                       out \o "/sigma/" \o name \o "_alignments.done")
        t3 == AppendIf(mode = "s:likelihoods", t2,
                       out \o "/probabilities/" \o name \o "/" \o name
                           \o "_likelihood_ts_tv_matrix.csv")
        t4 == AppendIf(mode = "s:probabilities", t3,
                       out \o "/probabilities/" \o name \o "/" \o name
                           \o "_posterior_probabilities.tsv")
        t5 == AppendIf(mode = "s:abundances", t4,
                       out \o "/probabilities/" \o name \o "/" \o name
                           \o "_posterior_abundance.tsv")
        t6 == AppendIf(mode = "s:reads", t5,
                       out \o "/dirichlet_reads/" \o name
                           \o "_dirichlet_reads.done")
    IN  AppendIf(mode = "s:mapdamage", t6,
                 out \o "/mapdamage/" \o name \o "_mapdamage.done")

BothDbYamls_Tolerated(fetch, build) == FALSE
\* if os.path.exists(db_build_yaml) and os.path.exists(db_fetch_yaml)
BothDbYamls(fetch, build) == build.exists /\ fetch.exists

\* if os.path.exists(db_build_yaml) is False
\*    and os.path.exists(db_fetch_yaml) is False
NoDbYaml(fetch, build) == ~build.exists /\ ~fetch.exists

\* the outcome of rip analyse when it raised: nothing written, no workflow
AnalyseRaised(merged, analysis) ==
    [outcome |-> "RuntimeError", merged |-> merged, engine |-> NoEngine,
     analysis |-> analysis, wrote |-> {}]

\* Rip.analyse from the merge of the packaged and the user config on: dbDir
\* and sampleDir say whether the directories of -D and -S exist, env is the
\* results directory, old the analysis yaml as the run finds it
AnalyseResult(a, dbDir, sampleDir, env, rp, user, fetch, build, sample, old) ==
    LET rr     == Update(rp, user)
        database_config == IF build.exists THEN build.data ELSE fetch.data
        merged == Update(Update(Update(rr, database_config), sample.data), a)
        c1     == Assign(merged, "analysis_output_dir",
                         NormalisePath(merged["analysis_output_dir"]))
        analysis2 == WriteOnce(old, NotIn(c1, rr))
        c2     == Assign(c1, "workflow_dir", "s:$PKG/workflow")
    IN  IF ~dbDir THEN AnalyseRaised(EmptyDict, old)
        ELSE IF ~sampleDir THEN AnalyseRaised(EmptyDict, old)
        ELSE IF BothDbYamls(fetch, build)
             THEN AnalyseRaised(EmptyDict, old)
        ELSE IF NoDbYaml(fetch, build)
             THEN AnalyseRaised(EmptyDict, old)
        ELSE IF ~sample.exists THEN AnalyseRaised(EmptyDict, old)
        ELSE IF Truthy(merged["analysis_output_dir"]) /\ DirNotWritable(env)
             THEN AnalyseRaised(merged, old)
        ELSE IF merged["analysis_output_dir"] = None
             THEN AnalyseRaised(merged, old)
        ELSE [outcome |-> "ok", merged |-> merged,
              engine |-> EngineCall("Snakefile", c2, AnalyseTargets(c1), a,
                                    a["debug"]),
              analysis |-> analysis2,
              wrote |-> IF analysis2 # old THEN {"analysis"} ELSE {}]

\* rip analyse with options on the command line, the packaged Snakefile and
\* config/config.yaml in place
Analyse(a, dbDir, sampleDir, env) ==
    LET r == IF ~userFile.exists THEN AnalyseRaised(EmptyDict, analysisFile)
             ELSE AnalyseResult(a, dbDir, sampleDir, env, repo,
                                userFile.data, dbFetch, dbBuild, sampleFile,
                                analysisFile)
    IN  /\ analysisFile' = r.analysis
        /\ Finish("analyse", TRUE, a, env, r.outcome, r.merged, r.engine,
                  r.wrote)
        /\ UNCHANGED <<repo, userFile, dbFetch, dbBuild, sampleFile,
                       entrezVars>>

(***************************************************************************)
(* The three workflow subcommands on one database, one sample and one      *)
(* results directory                                                       *)
(***************************************************************************)
\* the command line a with --debug and --dry-run set or not
WithFlags(a, flag) == Assign(Assign(a, "debug", flag), "dry_run", flag)

RunSource == [refseq_rep |-> "s:True", mtDNA |-> PyFalse, query |-> None,
              query_file |-> None]
RunDatabaseArgs ==
    {DatabaseArgsOf(mode, "s:db", RunSource) : mode \in DbModes}
    \cup {WithFlags(DatabaseArgsOf("s:fetch", "s:db", RunSource), PyTrue)}

RunReads == [fastq |-> "s:r.fq", fastq_r1 |-> None, fastq_r2 |-> None,
             sra |-> None, collapse |-> PyFalse]
RunSampleArgs ==
    {WithFlags(SampleArgsOf(RunReads), f) : f \in {PyFalse, PyTrue}}

NextRun ==
    \/ \E a \in RunDatabaseArgs :
          \E env \in OutputEnvsFor(a), qtext \in QueryTextsFor(a) :
              Database(a, env, qtext)
    \/ \E a \in RunSampleArgs :
          \E env \in SampleEnvs, exist \in FilesExistFor(a),
             paired \in PairedFor(a) :
              Sample(a, env, exist, paired)
    \/ \E a \in AnalyseArgs :
          \E dbDir \in DbDirExists, sampleDir \in SampleDirExists :
              \E env \in AnalyseEnvsFor(a, dbDir, sampleDir) :
                  Analyse(a, dbDir, sampleDir, env)

SpecRun == InitCli /\ [][NextRun]_vars


(***************************************************************************)
(* Properties of the workflow subcommands                                  *)
(***************************************************************************)
\* C12: the workflow engine is always given exactly three entrez_api
\* resource slots: every invocation of the engine, by database, sample or
\* analyse, with --debug and --dry-run or without, passes entrez_api = 3,
\* whatever the flags and the configuration layers hold.
C12_EntrezApiAlwaysThree ==
    last.engine.called =>
        /\ last.cmd \in {"database", "sample", "analyse"}
        /\ last.engine.entrez_api = 3

C12_Witness ==
    /\ last.cmd = "analyse"
    /\ last.engine.called
    /\ last.engine.dryrun = PyTrue
    /\ last.engine.show_failed_logs = PyTrue
    /\ last.engine.config["batchsize"] = "i:7"
    /\ last.engine.entrez_api = 3


(***************************************************************************)
(* The batches of guts_of_entrez                                           *)
(***************************************************************************)
\* the records that request i asks the service for
Requested(i) ==
    LET got == RecordsOf([isNone |-> FALSE, request |-> i])
    IN  {got[k] : k \in 1..Len(got)}

\* C13: guts_of_entrez fetches in batches of batch_size: the request for
\* the batch at offset s asks for at most batch_size records starting at
\* s, so that requests of different batches ask for disjoint records.
C13_BatchedFetch ==
    /\ \A i \in 1..Len(requests) :
          /\ requests[i].req.retstart = requests[i].batch
          /\ requests[i].req.retmax <= gargs.batch_size
    /\ \A i, j \in 1..Len(requests) :
          requests[i].batch # requests[j].batch =>
              Requested(i) \cap Requested(j) = {}


(***************************************************************************)
(* Properties of rip database                                              *)
(***************************************************************************)
\* the engine of the last run was asked for the file under the database
\* output directory
AskedFor(file) ==
    \E i \in 1..Len(last.engine.targets) :
        last.engine.targets[i] =
            NormalisePath(last.args["db_output"]) \o file

\* a fetch that reached the workflow engine
FetchRan ==
    /\ last.cmd = "database"
    /\ last.args["mode"] = "s:fetch"
    /\ last.engine.called

\* C14: the targets of a fetch are determined by the sources supplied:
\* entrez_query.fasta.gz is a target if and only if a query was supplied
\* (--query or --query-file), refseq_prok.fasta.gz iff --refseq-rep,
\* custom_seqs.fasta.gz iff --sequences, custom_acc.fasta.gz iff
\* --accessions.
C14_FetchTargetsBySource ==
    FetchRan =>
        /\ AskedFor("/bowtie/entrez_query.fasta.gz")
              <=> (Truthy(last.args["query"])
                   \/ Truthy(last.args["query_file"]))
        /\ AskedFor("/bowtie/refseq_prok.fasta.gz")
              <=> Truthy(last.args["refseq_rep"])
        /\ AskedFor("/bowtie/custom_seqs.fasta.gz")
              <=> Truthy(last.args["sequences"])
        /\ AskedFor("/bowtie/custom_acc.fasta.gz")
              <=> Truthy(last.args["accessions"])


\* C15: without the per-user config file the workflow subcommands refuse
\* to run: when ~/.rip/config.yaml does not exist, each of database, sample
\* and analyse ends in a RuntimeError (asking to run rip config first),
\* does not invoke the workflow engine and writes no run-configuration
\* file.
C15_NoUserConfigNoRun ==
    [][(~userFile.exists /\ last'.cmd \in {"database", "sample", "analyse"})
          => /\ last'.outcome = "RuntimeError"
             /\ ~last'.engine.called
             /\ last'.wrote = {}
             /\ UNCHANGED <<userFile, dbFetch, dbBuild, sampleFile,
                            analysisFile>>]_vars

C15_Witness ==
    /\ ~userFile.exists
    /\ last.cmd = "sample"
    /\ last.dir.exists /\ last.dir.writable
    /\ last.outcome = "RuntimeError"
    /\ ~sampleFile.exists


\* C16: index requires a prior fetch and build forbids one: rip database
\* --mode index ends in a RuntimeError unless database_fetch_config.yaml is
\* in the output directory, and --mode build ends in a RuntimeError
\* whenever that file is there; in both cases the workflow engine is not
\* invoked.
C16_IndexNeedsFetchBuildForbidsIt ==
    [][(/\ last'.cmd = "database"
        /\ \/ last'.args["mode"] = "s:index" /\ ~dbFetch.exists
           \/ last'.args["mode"] = "s:build" /\ dbFetch.exists)
          => /\ last'.outcome = "RuntimeError"
             /\ ~last'.engine.called
             /\ last'.wrote = {}]_vars

C16_Witness ==
    /\ last.cmd = "database"
    /\ last.args["mode"] = "s:build"
    /\ ~FlagsConflict(last.args)
    /\ Truthy(last.args["db_output"])
    /\ last.dir.exists /\ last.dir.writable
    /\ dbFetch.exists
    /\ ~dbBuild.exists
    /\ last.outcome = "RuntimeError"


(***************************************************************************)
(* Properties of rip analyse and of the persisted run configurations       *)
(***************************************************************************)
\* C17: analyse requires exactly one database configuration and an
\* existing sample configuration: rip analyse ends in a RuntimeError when
\* the database directory holds both database_fetch_config.yaml and
\* database_build_config.yaml or neither of them, and when
\* sample_config.yaml is missing from the sample directory; in each case
\* the workflow engine is not invoked.
C17_AnalyseNeedsOneDbConfig ==
    [][(/\ last'.cmd = "analyse"
        /\ \/ dbFetch.exists /\ dbBuild.exists
           \/ ~dbFetch.exists /\ ~dbBuild.exists
           \/ ~sampleFile.exists)
          => /\ last'.outcome = "RuntimeError"
             /\ ~last'.engine.called
             /\ last'.wrote = {}
             /\ UNCHANGED analysisFile]_vars

C17_Witness ==
    /\ last.cmd = "analyse"
    /\ userFile.exists
    /\ dbFetch.exists /\ dbBuild.exists
    /\ sampleFile.exists
    /\ Truthy(last.args["analysis_output_dir"])
    /\ last.outcome = "RuntimeError"


\* C18: the two database configuration files are mutually exclusive: after
\* any sequence of rip database invocations on one output directory, the
\* directory never holds both database_fetch_config.yaml and
\* database_build_config.yaml.
C18_FetchBuildExclusive == ~(dbFetch.exists /\ dbBuild.exists)


\* the configuration files that the workflow subcommands persist
RunFiles == <<dbFetch, dbBuild, sampleFile, analysisFile>>

\* C19: persisted run configurations are write-once: the first invocation
\* that gets as far writes database_fetch_config.yaml,
\* database_build_config.yaml, sample_config.yaml or the analysis
\* <prefix>_config.yaml; once a file exists no later invocation, whatever
\* its flags, changes it.
C19_RunConfigWriteOnce ==
    [][/\ \A i \in 1..Len(RunFiles) :
             RunFiles[i].exists => RunFiles'[i] = RunFiles[i]
       /\ (last'.outcome = "ok" /\ last'.cmd = "sample") => sampleFile'.exists
       /\ (last'.outcome = "ok" /\ last'.cmd = "analyse")
             => analysisFile'.exists
       /\ (last'.outcome = "ok" /\ last'.cmd = "database"
           /\ last'.args["mode"] = "s:fetch") => dbFetch'.exists
       /\ (last'.outcome = "ok" /\ last'.cmd = "database"
           /\ last'.args["mode"] = "s:build") => dbBuild'.exists]_vars

C19_Witness ==
    /\ last.cmd = "sample"
    /\ last.outcome = "ok"
    /\ last.wrote = {}
    /\ sampleFile.exists
    /\ sampleFile.data["debug"] # last.args["debug"]
    /\ analysisFile.exists


\* an index run that reached the workflow engine
IndexRan ==
    /\ last.cmd = "database"
    /\ last.args["mode"] = "s:index"
    /\ last.engine.called

\* C20: index reuses the configuration persisted by fetch: in index mode
\* the configuration handed to the workflow engine is the one that the
\* earlier fetch wrote to database_fetch_config.yaml, with workflow_dir
\* added and mtDNA turned into its lower-case text, and not the merged
\* layers of the index invocation itself.
C20_IndexUsesFetchConfig ==
    IndexRan =>
        /\ dbFetch.exists
        /\ \A k \in Keys \ {"workflow_dir", "mtDNA"} :
              last.engine.config[k] = dbFetch.data[k]
        /\ last.engine.config["workflow_dir"] = "s:$PKG/workflow"
        /\ last.engine.config["mtDNA"] =
              (IF dbFetch.data["mtDNA"] = PyTrue THEN "s:true" ELSE "s:false")

C20_Witness ==
    /\ IndexRan
    /\ last.merged["query"] # dbFetch.data["query"]
    /\ last.merged["refseq_rep"] # dbFetch.data["refseq_rep"]
    /\ last.engine.config["query"] = dbFetch.data["query"]
    /\ last.engine.config["mode"] = "s:fetch"
    /\ dbFetch.data["mtDNA"] = PyFalse
    /\ last.engine.config["mtDNA"] = "s:false"


(***************************************************************************)
(* Properties of rip config with option flags                              *)
(***************************************************************************)
\* the flag of key k was given on the command line a: its option has a
\* value; --use-conda shows only when it differs from the parser's default
FlagGiven(a, k) ==
    IF k = "use_conda" THEN Has(a, k) /\ a[k] # ConfigDefaults[k]
    ELSE Has(a, k) /\ a[k] # None

\* C21: rip config with option flags on a configured installation changes,
\* in the persisted user config, only the keys whose flag was given on the
\* command line; every other persisted key keeps its previous value.
C21_OnlyGivenKeysChange ==
    [][(last'.cmd = "config" /\ last'.flags /\ userFile.exists) =>
          /\ userFile'.exists
          /\ \A k \in Keys :
                ~FlagGiven(last'.args, k) =>
                    userFile'.data[k] = userFile.data[k]]_vars

C21_Witness ==
    /\ last.cmd = "config" /\ last.flags
    /\ last.outcome = "ok"
    /\ last.args["batchsize"] = "i:7"
    /\ last.args["email"] = None
    /\ last.args["genome_cache_folder"] = None
    /\ userFile.data["batchsize"] = "i:7"
    /\ userFile.data["email"] = "s:a@b.c"
    /\ userFile.data["genome_cache_folder"] = "s:~/rip_genomes"


\* the values of the command line a are all valid: an address that matches
\* the pattern, a genome cache folder that can be written (d is the folder
\* as the file system has it), a positive batchsize, and True or False for
\* use_conda; an option that is not given is valid
ValidConfigFlags(a, d) ==
    /\ a["email"] = None \/ EmailValid(a["email"])
    /\ a["genome_cache_folder"] = None \/ ~CannotWrite(d)
    /\ a["batchsize"] \in {None, "i:1", "i:5", "i:7"}
    /\ a["mismatch_probability"] = None
    /\ a["bowtie2_threads"] = None
    /\ a["bowtie2_scaling"] = None
    /\ a["use_conda"] \in {PyTrue, PyFalse}

\* C22: rip config on a configured installation with only valid option
\* flags (for example a positive --batchsize and nothing else) passes
\* check_config_arguments without error and persists the given values;
\* use_conda is rejected only when it is neither True nor False.
C22_ValidFlagsAccepted ==
    (/\ last.cmd = "config" /\ last.flags
     /\ userFile.exists
     /\ ValidConfigFlags(last.args, last.dir)) =>
        /\ last.outcome = "ok"
        /\ \A k \in Keys :
              (Has(last.args, k) /\ last.args[k] # None) =>
                  userFile.data[k] = last.args[k]


\* the numeric options of rip config and their strictly positive values
IntOptions == {"batchsize", "bowtie2_threads"}
FloatOptions == {"mismatch_probability", "bowtie2_scaling"}
PositiveInts == {"i:1", "i:5", "i:7"}
PositiveFloats == {"f:0.05", "f:0.1", "f:2.5"}

\* every numeric option that the dict d sets is strictly positive
NumbersPositive(d) ==
    /\ \A k \in IntOptions :
          (Has(d, k) /\ d[k] # None) => d[k] \in PositiveInts
    /\ \A k \in FloatOptions :
          (Has(d, k) /\ d[k] # None) => d[k] \in PositiveFloats

\* C23: whenever check_config_arguments returns normally, every numeric
\* option that is set is strictly positive: batchsize and bowtie2_threads
\* are integers > 0, mismatch_probability and bowtie2_scaling numbers > 0;
\* any other value, 0 included, raises a RuntimeError. So the options of a
\* rip config run that did not raise, and the user config it wrote, hold
\* only strictly positive numbers.
C23_NumbersStrictlyPositive ==
    (last.cmd = "config" /\ last.outcome \in {"ok", "exit"}) =>
        /\ last.flags => NumbersPositive(last.args)
        /\ NumbersPositive(userFile.data)


(***************************************************************************)
(* Properties of rip sample                                                *)
(***************************************************************************)
\* --fastq given together with --fastq-r1 or --fastq-r2
ReadsConflict(a) ==
    /\ Truthy(a["fastq"])
    /\ Truthy(a["fastq_r1"]) \/ Truthy(a["fastq_r2"])

\* --collapse given with a --fastq file
CollapseOfFile(a) == Truthy(a["fastq"]) /\ Truthy(a["collapse"])

\* C24: rip sample rejects inconsistent read inputs: --fastq together with
\* --fastq-r1 or --fastq-r2, and --collapse with single-end input (a
\* --fastq file, or an SRA accession that is single-end), end in a
\* RuntimeError without writing sample_config.yaml and without invoking
\* the workflow engine; so a run with --sra and --collapse that went
\* through had a paired-end accession.
C24_InconsistentReadsRejected ==
    [][(last'.cmd = "sample") =>
          /\ (ReadsConflict(last'.args) \/ CollapseOfFile(last'.args)) =>
                /\ last'.outcome = "RuntimeError"
                /\ ~last'.engine.called
                /\ last'.wrote = {}
                /\ sampleFile' = sampleFile
          /\ (/\ last'.args["sra"] # None
              /\ Truthy(last'.args["collapse"])
              /\ last'.engine.called \/ last'.wrote # {}
                    \/ sampleFile' # sampleFile) =>
                /\ last'.engine.config["SE"] # PyTrue
                /\ last'.engine.config["PE_ANCIENT"] = PyTrue]_vars

C24_Witness ==
    /\ last.cmd = "sample"
    /\ userFile.exists
    /\ last.dir.exists /\ last.dir.writable
    /\ last.args["fastq"] # None /\ last.args["fastq_r2"] # None
    /\ last.args["fastq_r1"] = None
    /\ last.outcome = "RuntimeError"
    /\ ~sampleFile.exists


=====
